---- MODULE Spec2Model ----
(***************************************************************************)
(* Model of compare-results.ts: the result normaliser, the loader, the     *)
(* comparator, the aggregator and the report writer.                       *)
(*                                                                         *)
(* Numbers.  Durations and token counts are integers (the harness writes   *)
(* Date.now() differences and API token counts).  A cost is represented    *)
(* by its numerator over 1_000_000, so tokensIn/1e6*15 + tokensOut/1e6*75  *)
(* is the integer 15*tokensIn + 75*tokensOut, and  a < b * 0.9  is the     *)
(* exact comparison 10*a < 9*b.  For integer durations the double          *)
(* comparison of the source agrees with the exact one; for costs the       *)
(* model is the exact-arithmetic reading of the source.                    *)
(*                                                                         *)
(* Objects.  A raw record is a function from the field names it carries    *)
(* to their values, so an absent (undefined) field is a name outside its   *)
(* DOMAIN.  A file is [exists, parses, data]; a loaded result set is       *)
(* [present, recs], null being present = FALSE.                            *)
(***************************************************************************)
EXTENDS Integers, Sequences, FiniteSets, TLC

VARIABLES
    piFile,         \* results/pi-sdk-results.json
    claudeFile,     \* results/anthropic-bedrock-results.json
    reportFile,     \* results/comparison-report.json
    pc,             \* position of compareResults()
    piResults,      \* local of compareResults
    claudeResults,  \* local of compareResults
    comparisons,    \* local of compareResults
    piTotals,       \* local of compareResults
    claudeTotals,   \* local of compareResults
    speedWins,      \* local of compareResults
    overall,        \* the OVERALL SPEED line printed to the console
    clock,          \* what new Date() returns at the next write
    runs            \* number of runs of the script started so far

vars == <<piFile, claudeFile, reportFile, pc, piResults, claudeResults,
          comparisons, piTotals, claudeTotals, speedWins, overall, clock, runs>>

files == <<piFile, claudeFile, reportFile>>
locals == <<piResults, claudeResults, comparisons, piTotals, claudeTotals,
            speedWins, overall>>

----------------------------------------------------------------------------
(* Bounds of the model *)

MaxLen == 2        \* longest generated result set
MaxRuns == 2       \* runs of the script in one behaviour

----------------------------------------------------------------------------
(* Pricing and margin *)

BEDROCK_INPUT_PRICE == 15
BEDROCK_OUTPUT_PRICE == 75

\* the factor 0.9 of the margin rule, as MarginNum / MarginDen
MarginNum == 9
MarginDen == 10

\* a < b * 0.8, a margin of 20%
Below80(a, b) == MarginDen * a < (MarginNum - 1) * b

\* a <= b * 0.9
Below90NotStrict(a, b) == MarginDen * a <= MarginNum * b

\* a < b, the margin left out
Below90NoMargin(a, b) == a < b

\* a < b * 0.9
Below90(a, b) == MarginDen * a < MarginNum * b

\* calculateBedrockCost with the two prices exchanged
calculateBedrockCostSwapped(tokensIn, tokensOut) ==
    tokensIn * BEDROCK_OUTPUT_PRICE + tokensOut * BEDROCK_INPUT_PRICE

\* numerator over 1_000_000 of (tokensIn/1e6)*15 + (tokensOut/1e6)*75
calculateBedrockCost(tokensIn, tokensOut) ==
    tokensIn * BEDROCK_INPUT_PRICE + tokensOut * BEDROCK_OUTPUT_PRICE

----------------------------------------------------------------------------
(* normaliseResult *)

Has(r, f) == f \in DOMAIN r

\* r[a] ?? r[b] ?? 0: the first of the two fields that is present
NumOrPresent(r, a, b) ==
    IF Has(r, a) THEN r[a]
    ELSE IF Has(r, b) THEN r[b]
    ELSE 0

\* r[a] || r[b] || 0   for number fields: undefined and 0 are falsy
NumOr(r, a, b) ==
    IF Has(r, a) /\ r[a] # 0 THEN r[a]
    ELSE IF Has(r, b) /\ r[b] # 0 THEN r[b]
    ELSE 0

\* r[a] || r[b] || d   for string fields: undefined and "" are falsy
StrOr(r, a, b, d) ==
    IF Has(r, a) /\ r[a] # "" THEN r[a]
    ELSE IF Has(r, b) /\ r[b] # "" THEN r[b]
    ELSE d

\* the fields normaliseResult copies as they are; a copied undefined is an
\* absent field
PassThrough == {"framework", "model", "prompt", "response", "success", "error"}

\* normaliseResult keeping the cost figure the raw record carries
normaliseResultTrustCost(r) ==
    LET tokensIn == NumOr(r, "tokensIn", "tokens_in")
        tokensOut == NumOr(r, "tokensOut", "tokens_out")
        cost == IF Has(r, "cost") /\ r.cost # 0 THEN r.cost
                ELSE calculateBedrockCost(tokensIn, tokensOut)
    IN  [testName |-> StrOr(r, "testName", "test_name", "Unknown"),
         tokensIn |-> tokensIn,
         tokensOut |-> tokensOut,
         cost |-> cost,
         durationMs |-> NumOr(r, "durationMs", "duration_ms")]
        @@ [f \in (DOMAIN r \cap PassThrough) |-> r[f]]

\* normaliseResult reading the duration under its camelCase name alone
normaliseResultCamelDuration(r) ==
    LET tokensIn == NumOr(r, "tokensIn", "tokens_in")
        tokensOut == NumOr(r, "tokensOut", "tokens_out")
        cost == calculateBedrockCost(tokensIn, tokensOut)
    IN  [testName |-> StrOr(r, "testName", "test_name", "Unknown"),
         tokensIn |-> tokensIn,
         tokensOut |-> tokensOut,
         cost |-> cost,
         durationMs |-> NumOr(r, "durationMs", "durationMs")]
        @@ [f \in (DOMAIN r \cap PassThrough) |-> r[f]]

\* normaliseResult leaving the error message out
normaliseResultNoError(r) ==
    LET tokensIn == NumOr(r, "tokensIn", "tokens_in")
        tokensOut == NumOr(r, "tokensOut", "tokens_out")
        cost == calculateBedrockCost(tokensIn, tokensOut)
    IN  [testName |-> StrOr(r, "testName", "test_name", "Unknown"),
         tokensIn |-> tokensIn,
         tokensOut |-> tokensOut,
         cost |-> cost,
         durationMs |-> NumOr(r, "durationMs", "duration_ms")]
        @@ [f \in (DOMAIN r \cap (PassThrough \ {"error"})) |-> r[f]]

normaliseResult(r) ==
    LET tokensIn == NumOr(r, "tokensIn", "tokens_in")
        tokensOut == NumOr(r, "tokensOut", "tokens_out")
        cost == calculateBedrockCost(tokensIn, tokensOut)
    IN  [testName |-> StrOr(r, "testName", "test_name", "Unknown"),
         tokensIn |-> tokensIn,
         tokensOut |-> tokensOut,
         cost |-> cost,
         durationMs |-> NumOr(r, "durationMs", "duration_ms")]
        @@ [f \in (DOMAIN r \cap PassThrough) |-> r[f]]

----------------------------------------------------------------------------
(* loadResults *)

Null == [present |-> FALSE, recs |-> <<>>]

\* loadResults leaving out the records that carry no task name
loadResultsNamedOnly(file) ==
    IF ~file.exists THEN Null
    ELSE [present |-> TRUE,
          recs |-> LET named == SelectSeq(file.data,
                                   LAMBDA r : Has(r, "testName") \/ Has(r, "test_name"))
                   IN  [i \in 1..Len(named) |-> normaliseResult(named[i])]]

\* the value loadResults returns when it returns
loadResults(file) ==
    IF ~file.exists THEN Null
    ELSE [present |-> TRUE,
          recs |-> [i \in 1..Len(file.data) |-> normaliseResult(file.data[i])]]

\* readFileSync or JSON.parse throws
loadThrows(file) == file.exists /\ ~file.parses

----------------------------------------------------------------------------
(* compareResults: the comparison table *)

Range(s) == {s[i] : i \in 1..Len(s)}

\* results?.forEach((r) => testNames.add(r.testName)) on a Set, which keeps
\* insertion order and ignores a value it already holds
RECURSIVE AddNames(_, _)
AddNames(names, recs) ==
    IF recs = <<>> THEN names
    ELSE AddNames(IF Head(recs).testName \in Range(names)
                  THEN names
                  ELSE Append(names, Head(recs).testName),
                  Tail(recs))

\* testNames filled from the Claude result set first
testNamesClaudeFirst(pi, claude) == AddNames(AddNames(<<>>, claude.recs), pi.recs)

\* testNames keeping the names both result sets hold
testNamesCommon(pi, claude) ==
    SelectSeq(AddNames(<<>>, pi.recs),
              LAMBDA n : \E i \in 1..Len(claude.recs) : claude.recs[i].testName = n)

testNames(pi, claude) == AddNames(AddNames(<<>>, pi.recs), claude.recs)

\* FindIndex giving the index of the last match
FindIndexLast(res, testName) ==
    LET hits == {i \in 1..Len(res.recs) : res.recs[i].testName = testName}
    IN  IF hits = {} THEN 0
        ELSE CHOOSE i \in hits : \A j \in hits : i >= j

\* results?.find((r) => r.testName === testName): index of the first match,
\* 0 for undefined
FindIndex(res, testName) ==
    LET hits == {i \in 1..Len(res.recs) : res.recs[i].testName = testName}
    IN  IF hits = {} THEN 0
        ELSE CHOOSE i \in hits : \A j \in hits : i <= j

\* { duration: r?.durationMs || 0, ..., success: r?.success || false }
Snapshot(res, testName) ==
    LET i == FindIndex(res, testName)
    IN  IF i = 0
        THEN [duration |-> 0, tokensIn |-> 0, tokensOut |-> 0, cost |-> 0,
              success |-> FALSE]
        ELSE LET r == res.recs[i]
             IN  [duration |-> r.durationMs,
                  tokensIn |-> r.tokensIn,
                  tokensOut |-> r.tokensOut,
                  cost |-> r.cost,
                  success |-> Has(r, "success") /\ r.success]

\* speedWinner starting from "unknown", as the cost verdict does
speedWinnerUnknown(piSdk, claudeSdk) ==
    IF piSdk.duration # 0 /\ claudeSdk.duration # 0
    THEN IF Below90(piSdk.duration, claudeSdk.duration) THEN "pi"
         ELSE IF Below90(claudeSdk.duration, piSdk.duration) THEN "claude"
         ELSE "tie"
    ELSE "unknown"

\* speedWinner comparing the durations whether or not both are truthy
speedWinnerUnguarded(piSdk, claudeSdk) ==
    IF Below90(piSdk.duration, claudeSdk.duration) THEN "pi"
    ELSE IF Below90(claudeSdk.duration, piSdk.duration) THEN "claude"
    ELSE "tie"

\* winner.speed: starts as "tie"; durations are compared when both are truthy
speedWinner(piSdk, claudeSdk) ==
    IF piSdk.duration # 0 /\ claudeSdk.duration # 0
    THEN IF Below90(piSdk.duration, claudeSdk.duration) THEN "pi"
         ELSE IF Below90(claudeSdk.duration, piSdk.duration) THEN "claude"
         ELSE "tie"
    ELSE "tie"

\* costWinner starting from "tie" and comparing truthy costs, as speedWinner does
costWinnerLikeSpeed(piSdk, claudeSdk) ==
    IF piSdk.cost # 0 /\ claudeSdk.cost # 0
    THEN IF Below90(piSdk.cost, claudeSdk.cost) THEN "pi"
         ELSE IF Below90(claudeSdk.cost, piSdk.cost) THEN "claude"
         ELSE "tie"
    ELSE "tie"

\* winner.cost: starts as "unknown"; costs are compared when both are > 0
costWinner(piSdk, claudeSdk) ==
    IF piSdk.cost > 0 /\ claudeSdk.cost > 0
    THEN IF Below90(piSdk.cost, claudeSdk.cost) THEN "pi"
         ELSE IF Below90(claudeSdk.cost, piSdk.cost) THEN "claude"
         ELSE "tie"
    ELSE "unknown"

Comparison(testName, pi, claude) ==
    LET piSdk == Snapshot(pi, testName)
        claudeSdk == Snapshot(claude, testName)
    IN  [testName |-> testName,
         piSdk |-> piSdk,
         claudeSdk |-> claudeSdk,
         winner |-> [speed |-> speedWinner(piSdk, claudeSdk),
                     cost |-> costWinner(piSdk, claudeSdk)]]

\* the loop over testNames, pushing one comparison per name
buildComparisons(pi, claude) ==
    LET names == testNames(pi, claude)
    IN  [i \in 1..Len(names) |-> Comparison(names[i], pi, claude)]

----------------------------------------------------------------------------
(* compareResults: the summary *)

\* comparisons.reduce((sum, c) => sum + c[side][field], 0)
RECURSIVE SumField(_, _, _)
SumField(comps, side, field) ==
    IF comps = <<>> THEN 0
    ELSE Head(comps)[side][field] + SumField(Tail(comps), side, field)

\* Totals adding up the cost of the passed tasks alone
TotalsCostOfPassed(comps, side) ==
    [duration |-> SumField(comps, side, "duration"),
     tokensIn |-> SumField(comps, side, "tokensIn"),
     tokensOut |-> SumField(comps, side, "tokensOut"),
     cost |-> SumField(SelectSeq(comps, LAMBDA c : c[side].success), side, "cost"),
     passed |-> Cardinality({i \in 1..Len(comps) : comps[i][side].success})]

\* Totals counting every entry as passed
TotalsAllPassed(comps, side) ==
    [duration |-> SumField(comps, side, "duration"),
     tokensIn |-> SumField(comps, side, "tokensIn"),
     tokensOut |-> SumField(comps, side, "tokensOut"),
     cost |-> SumField(comps, side, "cost"),
     passed |-> Len(comps)]

Totals(comps, side) ==
    [duration |-> SumField(comps, side, "duration"),
     tokensIn |-> SumField(comps, side, "tokensIn"),
     tokensOut |-> SumField(comps, side, "tokensOut"),
     cost |-> SumField(comps, side, "cost"),
     passed |-> Cardinality({i \in 1..Len(comps) : comps[i][side].success})]

\* SpeedWins counting the cost verdicts
SpeedWinsOfCost(comps) ==
    [pi |-> Cardinality({i \in 1..Len(comps) : comps[i].winner.cost = "pi"}),
     claude |-> Cardinality({i \in 1..Len(comps) : comps[i].winner.cost = "claude"}),
     tie |-> Cardinality({i \in 1..Len(comps) : comps[i].winner.cost = "tie"})]

SpeedWins(comps) ==
    [pi |-> Cardinality({i \in 1..Len(comps) : comps[i].winner.speed = "pi"}),
     claude |-> Cardinality({i \in 1..Len(comps) : comps[i].winner.speed = "claude"}),
     tie |-> Cardinality({i \in 1..Len(comps) : comps[i].winner.speed = "tie"})]

\* the OVERALL SPEED line naming the participant with the larger total
overallWinnerExchanged(piT, claudeT) ==
    IF Below90(claudeT.duration, piT.duration) THEN "pi"
    ELSE IF Below90(piT.duration, claudeT.duration) THEN "claude"
    ELSE "close"

\* the OVERALL SPEED line
overallWinner(piT, claudeT) ==
    IF Below90(piT.duration, claudeT.duration) THEN "pi"
    ELSE IF Below90(claudeT.duration, piT.duration) THEN "claude"
    ELSE "close"

----------------------------------------------------------------------------
(* The report *)

ZeroTotals == [duration |-> 0, tokensIn |-> 0, tokensOut |-> 0, cost |-> 0,
               passed |-> 0]
ZeroWins == [pi |-> 0, claude |-> 0, tie |-> 0]

NoReport == [exists |-> FALSE, intact |-> TRUE, comparisons |-> <<>>,
             summary |-> [piTotals |-> ZeroTotals, claudeTotals |-> ZeroTotals,
                          speedWins |-> ZeroWins],
             generatedAt |-> 0]

\* the object given to JSON.stringify
Report(comps, piT, claudeT, wins, now) ==
    [exists |-> TRUE, intact |-> TRUE, comparisons |-> comps,
     summary |-> [piTotals |-> piT, claudeTotals |-> claudeT, speedWins |-> wins],
     generatedAt |-> now]

\* a report without its generatedAt
Content(rep) == [rep EXCEPT !.generatedAt = 0]

----------------------------------------------------------------------------
(* Files and raw records *)

File(data) == [exists |-> TRUE, parses |-> TRUE, data |-> data]
\* existsSync(path) is false
Absent == [exists |-> FALSE, parses |-> TRUE, data |-> <<>>]
\* the file exists and readFileSync or JSON.parse throws on it, or what it
\* parses to is not an array of objects and data.map(normaliseResult) throws
Corrupt == [exists |-> TRUE, parses |-> FALSE, data |-> <<>>]

\* a record as the TypeScript harness writes it (camelCase)
Camel(name, duration, tIn, tOut, ok) ==
    [testName |-> name, framework |-> "pi-agent-sdk", tokensIn |-> tIn,
     tokensOut |-> tOut, cost |-> 0, durationMs |-> duration, success |-> ok]

\* a record as the Python harness writes it (snake_case)
Snake(name, duration, tIn, tOut, ok) ==
    [test_name |-> name, framework |-> "anthropic-bedrock", tokens_in |-> tIn,
     tokens_out |-> tOut, cost |-> 0, duration_ms |-> duration, success |-> ok]

\* the records the generated result sets are made of: a passing and a failing
\* record of task A, a snake_case record of task B, a record with no task
\* name, no tokens and no duration
Pool ==
    { Camel("A", 100, 10, 10, TRUE),
      Camel("A", 80, 0, 0, FALSE),
      Snake("B", 95, 10, 12, TRUE),
      [framework |-> "pi-agent-sdk", success |-> TRUE] }

\* all sequences over S of length at most n
SeqsUpTo(S, n) == UNION {[1..k -> S] : k \in 0..n}

GeneratedFiles == {Absent, Corrupt} \cup {File(d) : d \in SeqsUpTo(Pool, MaxLen)}

\* the end-to-end scenario: task "Bug Detection"
BugDetectionPi == File(<<Camel("Bug Detection", 7340, 50, 454, TRUE)>>)
BugDetectionClaude == File(<<Snake("Bug Detection", 8160, 50, 457, TRUE)>>)

\* a result set of partial records: one without a task name, one without
\* token counts, one without a duration, next to a complete Claude record
PartialScenario ==
    <<File(<<[framework |-> "pi-agent-sdk", tokensIn |-> 10, tokensOut |-> 10,
              durationMs |-> 100, success |-> TRUE],
             [testName |-> "A", framework |-> "pi-agent-sdk", durationMs |-> 80,
              success |-> TRUE],
             [test_name |-> "B", tokens_in |-> 10, tokens_out |-> 12,
              success |-> FALSE, error |-> "timeout"]>>),
      File(<<Snake("B", 95, 10, 12, TRUE)>>)>>

\* records with every field the harness writes: a run that failed (runTest's
\* catch branch) and a run that passed, against a passing Claude record
FailureScenario ==
    <<File(<<[testName |-> "A", framework |-> "pi-agent-sdk", model |-> "opus",
              prompt |-> "find the bugs", response |-> "ERROR: boom",
              tokensIn |-> 0, tokensOut |-> 0, cost |-> 0, durationMs |-> 80,
              success |-> FALSE, error |-> "boom"],
             [testName |-> "B", framework |-> "pi-agent-sdk", model |-> "opus",
              prompt |-> "refactor", response |-> "done",
              tokensIn |-> 10, tokensOut |-> 12, cost |-> 300, durationMs |-> 95,
              success |-> TRUE]>>),
      File(<<[test_name |-> "A", framework |-> "anthropic-bedrock",
              model |-> "opus", prompt |-> "find the bugs", response |-> "three bugs",
              tokens_in |-> 10, tokens_out |-> 10, cost |-> 900, duration_ms |-> 100,
              success |-> TRUE]>>)>>

\* the published benchmark: task, Pi duration (ms), Pi output tokens, Anthropic
\* duration (ms), Anthropic output tokens; input tokens are published as a
\* total only and are left at 0 here
Benchmark ==
    << <<"Bug Detection", 7340, 454, 8160, 457>>,
       <<"Code Refactoring", 14660, 1657, 14380, 1698>>,
       <<"Algorithm Implementation", 27750, 2534, 22450, 2222>>,
       <<"Complex Reasoning", 20520, 1337, 27240, 1809>>,
       <<"Multi-step Task", 26320, 2847, 27410, 2960>>,
       <<"Code Review", 9870, 620, 10080, 616>>,
       <<"SQL Optimisation", 14240, 870, 17090, 1224>>,
       <<"API Design", 82380, 9318, 68520, 7198>>,
       <<"Security Audit", 25040, 2259, 21250, 2149>>,
       <<"Architecture Decision", 148980, 14417, 86870, 8192>> >>

BenchmarkScenario ==
    <<File([i \in 1..Len(Benchmark) |->
              Camel(Benchmark[i][1], Benchmark[i][2], 0, Benchmark[i][3], TRUE)]),
      File([i \in 1..Len(Benchmark) |->
              Snake(Benchmark[i][1], Benchmark[i][4], 0, Benchmark[i][5], TRUE)])>>

\* Pi is faster on two short tasks, Claude on one long task
SplitScenario ==
    <<File(<<Camel("Short1", 1000, 10, 10, TRUE), Camel("Short2", 1000, 10, 10, TRUE),
             Camel("Long", 100000, 10, 10, TRUE)>>),
      File(<<Snake("Short1", 2000, 10, 10, TRUE), Snake("Short2", 2000, 10, 10, TRUE),
             Snake("Long", 10000, 10, 10, TRUE)>>)>>

ScenarioPairs ==
    {<<BugDetectionPi, BugDetectionClaude>>, PartialScenario, FailureScenario,
     BenchmarkScenario, SplitScenario}

InputPairs == (GeneratedFiles \X GeneratedFiles) \cup ScenarioPairs

\* the whole of compareResults as one function of the two files, for a run
\* on which nothing throws and which writes at time now
ReportOf(pf, cf, now) ==
    LET pi == loadResults(pf)
        claude == loadResults(cf)
        comps == buildComparisons(pi, claude)
    IN  Report(comps, Totals(comps, "piSdk"), Totals(comps, "claudeSdk"),
               SpeedWins(comps), now)

\* a report left in results/ by an earlier run, over other inputs
StaleReport == ReportOf(BugDetectionPi, File(<<Camel("A", 100, 10, 10, TRUE)>>), 0)

----------------------------------------------------------------------------
(* Raw records for normaliseResult: every field present or absent *)

EmptyRecord == [f \in {} |-> 0]

\* the field f absent, or present with a value of V
Field(f, V) == {EmptyRecord} \cup {f :> v : v \in V}

RichRaw ==
    { n1 @@ n2 @@ i1 @@ i2 @@ o1 @@ o2 @@ d1 @@ d2 @@ c @@ s :
        n1 \in Field("testName", {"", "A"}),
        n2 \in Field("test_name", {"", "B"}),
        i1 \in Field("tokensIn", {0, 50}),
        i2 \in Field("tokens_in", {-3}),
        o1 \in Field("tokensOut", {454}),
        o2 \in Field("tokens_out", {457}),
        d1 \in Field("durationMs", {0, -5}),
        d2 \in Field("duration_ms", {90}),
        c \in Field("cost", {40000}),
        s \in {EmptyRecord, [success |-> TRUE],
               [success |-> FALSE, error |-> "boom"]} }

CamelFields == {"testName", "tokensIn", "tokensOut", "durationMs"}
SnakeFields == {"test_name", "tokens_in", "tokens_out", "duration_ms"}

\* the name of the same field in the other naming convention
OtherName(f) ==
    CASE f = "testName" -> "test_name"
      [] f = "test_name" -> "testName"
      [] f = "tokensIn" -> "tokens_in"
      [] f = "tokens_in" -> "tokensIn"
      [] f = "tokensOut" -> "tokens_out"
      [] f = "tokens_out" -> "tokensOut"
      [] f = "durationMs" -> "duration_ms"
      [] f = "duration_ms" -> "durationMs"
      [] OTHER -> f

\* the record carrying the same values under the other convention's names
Swap(r) == [g \in {OtherName(f) : f \in DOMAIN r} |-> r[OtherName(g)]]

\* the record with another cost figure: a cost added when r has none, a
\* different one when it has one
OtherCost(r) ==
    [f \in DOMAIN r \cup {"cost"} |->
        IF f = "cost" THEN (IF Has(r, "cost") THEN r.cost + 1234 ELSE 0)
        ELSE r[f]]

\* r with its cost figure removed
NoCost(r) == [f \in DOMAIN r \ {"cost"} |-> r[f]]

\* the record the other participant carries in a normalisation pair
Variant(r, k) == IF k = "names" THEN Swap(r) ELSE OtherCost(r)

NormalisePairs ==
    {<<File(<<r>>), File(<<Variant(r, k)>>)>> :
        r \in RichRaw, k \in {"names", "cost"}}
    \cup ({Absent, Corrupt} \X {Absent, Corrupt})

----------------------------------------------------------------------------
(* Records for the verdicts: one task, durations and tokens around the margin *)

Durations == {-5, 0, 90, 91, 100, 7340, 8160, 899999, 900000, 1000000}
TokenPairs == {<<0, 0>>, <<50, 454>>, <<50, 457>>, <<0, 9>>, <<0, 10>>,
               <<-1, 0>>, <<100, 1000>>}

\* three tasks at the margin: exactly 90%, just over 10% apart, within 10%
MarginScenario ==
    <<File(<<Camel("T", 900000, 0, 9, TRUE), Camel("U", 899999, 50, 454, TRUE),
             Camel("V", 1000000, 0, 10, TRUE)>>),
      File(<<Snake("T", 1000000, 0, 10, TRUE), Snake("U", 1000000, 50, 457, TRUE),
             Snake("V", 900001, 0, 9, TRUE)>>)>>

VerdictPairs ==
    LET pis == {Absent, Corrupt} \cup
               {File(<<Camel("T", d, t[1], t[2], TRUE)>>) :
                    d \in Durations, t \in TokenPairs}
        claudes == {Absent, Corrupt} \cup
               {File(<<Snake("T", d, t[1], t[2], TRUE)>>) :
                    d \in Durations, t \in TokenPairs}
    IN  (pis \X claudes) \cup {MarginScenario}

----------------------------------------------------------------------------
(* Initial states *)

InitLocals ==
    /\ pc = "start"
    /\ piResults = Null
    /\ claudeResults = Null
    /\ comparisons = <<>>
    /\ piTotals = ZeroTotals
    /\ claudeTotals = ZeroTotals
    /\ speedWins = ZeroWins
    /\ overall = "none"
    /\ clock = 1
    /\ runs = 1

Init ==
    /\ \E p \in InputPairs : piFile = p[1] /\ claudeFile = p[2]
    /\ reportFile \in {NoReport, StaleReport}
    /\ InitLocals

----------------------------------------------------------------------------
(* compareResults, step by step *)

\* line 97
LoadPi ==
    /\ pc = "start"
    /\ IF loadThrows(piFile)
       THEN /\ pc' = "threw"
            /\ UNCHANGED piResults
       ELSE /\ pc' = "loadedPi"
            /\ piResults' = loadResults(piFile)
    /\ UNCHANGED <<files, claudeResults, comparisons, piTotals, claudeTotals,
                   speedWins, overall, clock, runs>>

\* LoadClaude taking a file that does not parse for a missing one
LoadClaudeLenient ==
    /\ pc = "loadedPi"
    /\ pc' = "loaded"
    /\ claudeResults' = IF loadThrows(claudeFile) THEN Null
                        ELSE loadResults(claudeFile)
    /\ UNCHANGED <<files, piResults, comparisons, piTotals, claudeTotals,
                   speedWins, overall, clock, runs>>

\* line 98
LoadClaude ==
    /\ pc = "loadedPi"
    /\ IF loadThrows(claudeFile)
       THEN /\ pc' = "threw"
            /\ UNCHANGED claudeResults
       ELSE /\ pc' = "loaded"
            /\ claudeResults' = loadResults(claudeFile)
    /\ UNCHANGED <<files, piResults, comparisons, piTotals, claudeTotals,
                   speedWins, overall, clock, runs>>

\* NoResults returning when neither result set holds a record
NoResultsEmpty ==
    /\ pc = "loaded"
    /\ piResults.recs = <<>> /\ claudeResults.recs = <<>>
    /\ pc' = "returned"
    /\ UNCHANGED <<files, locals, clock, runs>>

\* NoResults returning as soon as either result set is null
NoResultsEither ==
    /\ pc = "loaded"
    /\ ~piResults.present \/ ~claudeResults.present
    /\ pc' = "returned"
    /\ UNCHANGED <<files, locals, clock, runs>>

\* lines 100-105: if (!piResults && !claudeResults) return
NoResults ==
    /\ pc = "loaded"
    /\ ~piResults.present /\ ~claudeResults.present
    /\ pc' = "returned"
    /\ UNCHANGED <<files, locals, clock, runs>>

\* BuildComparisons saving the table to the report file as soon as it is built
BuildComparisonsSaving ==
    /\ pc = "loaded"
    /\ piResults.present \/ claudeResults.present
    /\ comparisons' = buildComparisons(piResults, claudeResults)
    /\ reportFile' = Report(comparisons', ZeroTotals, ZeroTotals, ZeroWins, clock)
    /\ pc' = "compared"
    /\ UNCHANGED <<piFile, claudeFile, piResults, claudeResults, piTotals,
                   claudeTotals, speedWins, overall, clock, runs>>

\* BuildComparisons taking the table from the report in results/ when there is one
BuildComparisonsCached ==
    /\ pc = "loaded"
    /\ piResults.present \/ claudeResults.present
    /\ comparisons' = IF reportFile.exists /\ reportFile.intact
                      THEN reportFile.comparisons
                      ELSE buildComparisons(piResults, claudeResults)
    /\ pc' = "compared"
    /\ UNCHANGED <<files, piResults, claudeResults, piTotals, claudeTotals,
                   speedWins, overall, clock, runs>>

\* lines 107-163
BuildComparisons ==
    /\ pc = "loaded"
    /\ piResults.present \/ claudeResults.present
    /\ comparisons' = buildComparisons(piResults, claudeResults)
    /\ pc' = "compared"
    /\ UNCHANGED <<files, piResults, claudeResults, piTotals, claudeTotals,
                   speedWins, overall, clock, runs>>

\* lines 202-261
Summarise ==
    /\ pc = "compared"
    /\ piTotals' = Totals(comparisons, "piSdk")
    /\ claudeTotals' = Totals(comparisons, "claudeSdk")
    /\ speedWins' = SpeedWins(comparisons)
    /\ overall' = overallWinner(piTotals', claudeTotals')
    /\ pc' = "summarised"
    /\ UNCHANGED <<files, piResults, claudeResults, comparisons, clock, runs>>

\* lines 263-281: writeFileSync returns
WriteReport ==
    /\ pc = "summarised"
    /\ reportFile' = Report(comparisons, piTotals, claudeTotals, speedWins, clock)
    /\ clock' = clock + 1
    /\ pc' = "done"
    /\ UNCHANGED <<piFile, claudeFile, locals, runs>>

\* lines 263-281: writeFileSync throws, before it opened the file or after it
\* truncated it
WriteThrows ==
    /\ pc = "summarised"
    /\ \/ UNCHANGED reportFile
       \/ reportFile' = [NoReport EXCEPT !.exists = TRUE, !.intact = FALSE]
    /\ clock' = clock + 1
    /\ pc' = "threw"
    /\ UNCHANGED <<piFile, claudeFile, locals, runs>>

\* line 284, again: the script is started once more over the same files
RunAgain ==
    /\ pc \in {"done", "returned", "threw"}
    /\ runs < MaxRuns
    /\ runs' = runs + 1
    /\ pc' = "start"
    /\ piResults' = Null
    /\ claudeResults' = Null
    /\ comparisons' = <<>>
    /\ piTotals' = ZeroTotals
    /\ claudeTotals' = ZeroTotals
    /\ speedWins' = ZeroWins
    /\ overall' = "none"
    /\ UNCHANGED <<files, clock>>

Next ==
    \/ LoadPi
    \/ LoadClaude
    \/ NoResults
    \/ BuildComparisons
    \/ Summarise
    \/ WriteReport
    \/ WriteThrows
    \/ RunAgain

Spec == Init /\ [][Next]_vars

\* runs over one raw record per participant, every field present or absent
InitNormalise ==
    /\ \E p \in NormalisePairs : piFile = p[1] /\ claudeFile = p[2]
    /\ reportFile = NoReport
    /\ InitLocals

SpecNormalise == InitNormalise /\ [][Next]_vars

\* runs over one record per participant for the same task
InitVerdict ==
    /\ \E p \in VerdictPairs : piFile = p[1] /\ claudeFile = p[2]
    /\ reportFile = NoReport
    /\ InitLocals

SpecVerdict == InitVerdict /\ [][Next]_vars

----------------------------------------------------------------------------
(* Properties *)

\* the run has built its comparison table
Compared == pc \in {"compared", "summarised", "done"}

\* each file holds exactly one record and both result sets are loaded
OneRecordEach ==
    /\ piResults.present /\ claudeResults.present
    /\ Len(piFile.data) = 1 /\ Len(claudeFile.data) = 1

\* C1: the cost of every normalised record is 15 per million input tokens plus
\* 75 per million output tokens of its resolved token counts, whatever cost
\* the raw record carried; two raw records that differ only in their cost
\* figure normalise to the same record and give the same snapshot, totals and
\* report columns.
C1_CostRecomputed ==
    /\ \A rec \in Range(piResults.recs) \cup Range(claudeResults.recs) :
          rec.cost = 15 * rec.tokensIn + 75 * rec.tokensOut
    /\ (OneRecordEach /\ NoCost(piFile.data[1]) = NoCost(claudeFile.data[1])) =>
          /\ piResults.recs = claudeResults.recs
          /\ Compared =>
                /\ Len(comparisons) = 1
                /\ comparisons[1].piSdk = comparisons[1].claudeSdk
          /\ pc = "done" =>
                /\ reportFile.comparisons[1].piSdk = reportFile.comparisons[1].claudeSdk
                /\ reportFile.summary.piTotals = reportFile.summary.claudeTotals

\* C1 witness: a report written from two records that differ in their cost
\* figure alone, neither figure being the recomputed cost
C1_Witness ==
    /\ pc = "done"
    /\ OneRecordEach
    /\ NoCost(piFile.data[1]) = NoCost(claudeFile.data[1])
    /\ Has(piFile.data[1], "cost") /\ Has(claudeFile.data[1], "cost")
    /\ piFile.data[1].cost # claudeFile.data[1].cost
    /\ reportFile.comparisons[1].piSdk.cost = 34800
    /\ piFile.data[1].cost # 34800 /\ claudeFile.data[1].cost # 34800

\* r carries none of the four dual fields under its snake_case name
CamelOnly(r) == DOMAIN r \cap SnakeFields = {}

\* C2: a raw record carrying its task name, token counts and duration under
\* the snake_case names alone normalises to the same record as the one that
\* carries the same values under the camelCase names alone.
C2_ConventionIndependent ==
    (/\ OneRecordEach
     /\ CamelOnly(piFile.data[1])
     /\ claudeFile.data[1] = Swap(piFile.data[1]))
    => piResults.recs[1] = claudeResults.recs[1]

\* C2 witness: the four values present and truthy, under camelCase names on
\* one side and snake_case names on the other
C2_Witness ==
    /\ pc = "loaded"
    /\ OneRecordEach
    /\ CamelFields \subseteq DOMAIN piFile.data[1]
    /\ SnakeFields \subseteq DOMAIN claudeFile.data[1]
    /\ CamelOnly(piFile.data[1])
    /\ claudeFile.data[1] = Swap(piFile.data[1])
    /\ piResults.recs[1].testName = "A"
    /\ piResults.recs[1].tokensIn = 50
    /\ piResults.recs[1].tokensOut = 454
    /\ piResults.recs[1].durationMs = -5
    /\ claudeResults.recs[1].durationMs = -5

\* the task names of a loaded result set
Names(res) == {res.recs[i].testName : i \in 1..Len(res.recs)}

ZeroSnapshot == [duration |-> 0, tokensIn |-> 0, tokensOut |-> 0, cost |-> 0,
                 success |-> FALSE]

\* C3: the comparison list holds exactly one entry for each task name of the
\* Pi result set or of the Claude result set (the union), none for any other
\* name, and one entry for a name however often it occurs; the report holds
\* that list.
C3_OneEntryPerName ==
    /\ Compared =>
          /\ {comparisons[i].testName : i \in 1..Len(comparisons)}
                = Names(piResults) \cup Names(claudeResults)
          /\ \A i, j \in 1..Len(comparisons) :
                comparisons[i].testName = comparisons[j].testName => i = j
    /\ pc = "done" => reportFile.comparisons = comparisons

\* C3 witness: task A twice in the Pi set (two different records) and once in
\* the Claude set, task B in the Claude set alone; the report has two entries
C3_Witness ==
    /\ pc = "done"
    /\ Len(piResults.recs) = 2
    /\ piResults.recs[1].testName = "A" /\ piResults.recs[2].testName = "A"
    /\ piResults.recs[1] # piResults.recs[2]
    /\ Len(claudeResults.recs) = 2
    /\ claudeResults.recs[1].testName = "A" /\ claudeResults.recs[2].testName = "B"
    /\ Len(reportFile.comparisons) = 2

\* C4: in the entry of a task that only one participant's result set holds,
\* the other participant's snapshot is all zero with success false and the
\* speed verdict is tie.
C4_MissingSideZeroAndTie ==
    Compared =>
        \A i \in 1..Len(comparisons) :
            LET c == comparisons[i]
            IN  /\ c.testName \notin Names(claudeResults) =>
                      c.claudeSdk = ZeroSnapshot /\ c.winner.speed = "tie"
                /\ c.testName \notin Names(piResults) =>
                      c.piSdk = ZeroSnapshot /\ c.winner.speed = "tie"

\* C4 witness: both sets loaded, a task with a positive duration in the Pi set
\* that the Claude set does not hold
C4_Witness ==
    /\ pc = "done"
    /\ piResults.present /\ claudeResults.present
    /\ Len(claudeResults.recs) > 0
    /\ \E i \in 1..Len(reportFile.comparisons) :
          LET c == reportFile.comparisons[i]
          IN  /\ c.testName \in Names(piResults) \ Names(claudeResults)
              /\ c.piSdk.duration > 0
              /\ c.piSdk.success
              /\ c.claudeSdk = ZeroSnapshot
              /\ c.winner.speed = "tie"

\* C5: a participant is the speed winner of a task exactly when both
\* durations are positive and its duration is strictly below 90% of the
\* other's; otherwise the verdict is tie; it is never unknown.
C5_SpeedVerdictIffPositiveAndBelow ==
    Compared =>
        \A i \in 1..Len(comparisons) :
            LET c == comparisons[i]
                p == c.piSdk.duration
                q == c.claudeSdk.duration
            IN  /\ c.winner.speed \in {"pi", "claude", "tie"}
                /\ c.winner.speed = "pi" <=> (p > 0 /\ q > 0 /\ 10 * p < 9 * q)
                /\ c.winner.speed = "claude" <=> (p > 0 /\ q > 0 /\ 10 * q < 9 * p)

\* C6: of two positive durations, neither below 90% of the other gives tie,
\* one exactly 90% of the other included; durations more than 10% apart give
\* the win to the faster participant, 899999 against 1000000 (10.0001% apart)
\* being such a pair.
C6_MarginBoundary ==
    Compared =>
        \A i \in 1..Len(comparisons) :
            LET c == comparisons[i]
                p == c.piSdk.duration
                q == c.claudeSdk.duration
            IN  (p > 0 /\ q > 0) =>
                  /\ (10 * p >= 9 * q /\ 10 * q >= 9 * p) => c.winner.speed = "tie"
                  /\ (10 * p = 9 * q \/ 10 * q = 9 * p) => c.winner.speed = "tie"
                  /\ 10 * p < 9 * q => c.winner.speed = "pi"
                  /\ 10 * q < 9 * p => c.winner.speed = "claude"
                  /\ (p = 899999 /\ q = 1000000) => c.winner.speed = "pi"
                  /\ (q = 899999 /\ p = 1000000) => c.winner.speed = "claude"

\* C6 witness: one report with a task at exactly 90% (tie), a task 10.0001%
\* apart (the faster wins) and a task within 10% (tie)
C6_Witness ==
    /\ pc = "done"
    /\ Len(reportFile.comparisons) = 3
    /\ LET c == reportFile.comparisons
       IN  /\ c[1].piSdk.duration = 900000 /\ c[1].claudeSdk.duration = 1000000
           /\ c[1].winner.speed = "tie"
           /\ c[2].piSdk.duration = 899999 /\ c[2].claudeSdk.duration = 1000000
           /\ c[2].winner.speed = "pi"
           /\ c[3].piSdk.duration = 1000000 /\ c[3].claudeSdk.duration = 900001
           /\ c[3].winner.speed = "tie"

\* C7: the cost verdict is unknown exactly when a participant's cost is not
\* strictly positive; with both costs positive it is the participant whose
\* cost is strictly below 90% of the other's, and tie when neither is.
C7_CostVerdict ==
    Compared =>
        \A i \in 1..Len(comparisons) :
            LET c == comparisons[i]
                p == c.piSdk.cost
                q == c.claudeSdk.cost
            IN  /\ c.winner.cost = "unknown" <=> (p <= 0 \/ q <= 0)
                /\ (p > 0 /\ q > 0) =>
                      /\ c.winner.cost = "pi" <=> 10 * p < 9 * q
                      /\ c.winner.cost = "claude" <=> 10 * q < 9 * p
                      /\ c.winner.cost = "tie" <=> (10 * p >= 9 * q /\ 10 * q >= 9 * p)

\* C7 witness: a report whose entry has both costs zero and the verdict
\* unknown while both durations are positive
C7_Witness ==
    /\ pc = "done"
    /\ Len(reportFile.comparisons) = 1
    /\ LET c == reportFile.comparisons[1]
       IN  /\ c.piSdk.cost = 0 /\ c.claudeSdk.cost = 0
           /\ c.piSdk.duration > 0 /\ c.claudeSdk.duration > 0
           /\ c.winner.cost = "unknown"

\* the two files of the end-to-end scenario
BugDetectionRun == piFile = BugDetectionPi /\ claudeFile = BugDetectionClaude

\* C8: on the Bug Detection scenario (Pi 7340 ms, 50/454 tokens; Claude
\* 8160 ms, 50/457 tokens) the single entry has speed verdict pi, 7340 being
\* below 8160 * 0.9 = 7344, and cost verdict tie.
C8_ScenarioVerdicts ==
    (BugDetectionRun /\ Compared) =>
        /\ Len(comparisons) = 1
        /\ comparisons[1].testName = "Bug Detection"
        /\ comparisons[1].piSdk.duration = 7340
        /\ comparisons[1].claudeSdk.duration = 8160
        /\ comparisons[1].winner.speed = "pi"
        /\ comparisons[1].winner.cost = "tie"
        /\ pc = "done" => reportFile.comparisons = comparisons

\* C8 witness: the report of the scenario, both costs positive
C8_Witness ==
    /\ BugDetectionRun
    /\ pc = "done"
    /\ reportFile.comparisons[1].winner = [speed |-> "pi", cost |-> "tie"]
    /\ reportFile.comparisons[1].piSdk.cost > 0
    /\ reportFile.comparisons[1].claudeSdk.cost > 0

\* C9 as stated: on the Bug Detection scenario the recomputed costs are
\* 0.00075 + 0.03255 for Pi and 0.00075 + 0.03278 for Claude, about 0.0335
\* each (numerators over 1e6).
C9_ScenarioCostsAsStated ==
    (BugDetectionRun /\ Compared) =>
        /\ comparisons[1].piSdk.cost = 750 + 32550
        /\ comparisons[1].claudeSdk.cost = 750 + 32780

\* C9 as amended: on the Bug Detection scenario the recomputed costs are
\* 0.00075 for input plus 0.03405 (Pi, 454 tokens) or 0.034275 (Claude, 457
\* tokens) for output: 0.0348 and 0.035025 (numerators over 1e6).
C9_ScenarioCosts ==
    (BugDetectionRun /\ Compared) =>
        LET c == comparisons[1]
        IN  /\ c.piSdk.tokensIn = 50 /\ c.piSdk.tokensOut = 454
            /\ c.claudeSdk.tokensIn = 50 /\ c.claudeSdk.tokensOut = 457
            /\ c.piSdk.cost = 750 + 34050
            /\ c.claudeSdk.cost = 750 + 34275
            /\ c.piSdk.cost = 34800 /\ c.claudeSdk.cost = 35025

\* C9 witness: the report of the scenario carries the two costs
C9_Witness ==
    /\ BugDetectionRun
    /\ pc = "done"
    /\ reportFile.comparisons[1].piSdk.cost = 34800
    /\ reportFile.comparisons[1].claudeSdk.cost = 35025
    /\ reportFile.summary.piTotals.cost = 34800

\* C10: the report a run writes is, apart from generatedAt, a function of the
\* two input files alone, whatever report was in results/ before and whatever
\* run came before; a run that finds the report of an earlier run of this
\* behaviour writes the same content again under a new generatedAt.
C10_ReportDependsOnInputsAlone ==
    /\ [](pc = "done" =>
            Content(reportFile) = Content(ReportOf(piFile, claudeFile, 0)))
    /\ [][(/\ pc = "summarised" /\ pc' = "done"
           /\ reportFile.intact /\ reportFile.generatedAt >= 1)
          => /\ Content(reportFile') = Content(reportFile)
             /\ reportFile'.generatedAt # reportFile.generatedAt]_vars

\* C10 witness: the second run of a behaviour has written its report over
\* that of the first
C10_Witness ==
    /\ pc = "done"
    /\ runs = 2
    /\ reportFile.generatedAt = 2
    /\ Len(reportFile.comparisons) = 2
    /\ reportFile.summary.piTotals.duration > 0

\* exactly one of the two result files does not exist and the other loads
OnlyClaudePresent == ~piFile.exists /\ claudeFile.exists /\ claudeFile.parses
OnlyPiPresent == ~claudeFile.exists /\ piFile.exists /\ piFile.parses

\* C11: when exactly one participant's result file is absent, loadResults
\* returns null for it without throwing, the run does not return early, builds
\* one entry per task of the present set, every snapshot of the absent
\* participant is all zero with success false, its totals are all zero, and
\* the report written holds that table and those totals.
C11_OneSetAbsent ==
    /\ OnlyClaudePresent =>
          /\ pc # "returned"
          /\ pc = "threw" => overall # "none"
          /\ pc \notin {"start", "threw"} => piResults = Null
          /\ Compared =>
                /\ {comparisons[i].testName : i \in 1..Len(comparisons)}
                      = Names(claudeResults)
                /\ Len(comparisons) = Cardinality(Names(claudeResults))
                /\ \A i \in 1..Len(comparisons) : comparisons[i].piSdk = ZeroSnapshot
          /\ pc \in {"summarised", "done"} => piTotals = ZeroTotals
          /\ pc = "done" =>
                /\ reportFile.comparisons = comparisons
                /\ reportFile.summary.piTotals = ZeroTotals
    /\ OnlyPiPresent =>
          /\ pc # "returned"
          /\ pc = "threw" => overall # "none"
          /\ pc \in {"loaded", "compared", "summarised", "done"} =>
                claudeResults = Null
          /\ Compared =>
                /\ {comparisons[i].testName : i \in 1..Len(comparisons)}
                      = Names(piResults)
                /\ Len(comparisons) = Cardinality(Names(piResults))
                /\ \A i \in 1..Len(comparisons) :
                      comparisons[i].claudeSdk = ZeroSnapshot
          /\ pc \in {"summarised", "done"} => claudeTotals = ZeroTotals
          /\ pc = "done" =>
                /\ reportFile.comparisons = comparisons
                /\ reportFile.summary.claudeTotals = ZeroTotals

\* C11 witness: the Pi file does not exist, the Claude set holds two tasks
\* with positive durations, and the report is written with two entries
C11_Witness ==
    /\ OnlyClaudePresent
    /\ pc = "done"
    /\ piResults = Null
    /\ Len(reportFile.comparisons) = 2
    /\ reportFile.comparisons[1].claudeSdk.duration > 0
    /\ reportFile.comparisons[2].claudeSdk.duration > 0
    /\ reportFile.comparisons[1].piSdk = ZeroSnapshot
    /\ reportFile.comparisons[2].piSdk = ZeroSnapshot
    /\ reportFile.summary.piTotals = ZeroTotals
    /\ reportFile.summary.claudeTotals.duration > 0

\* the per-task speed rule applied to two values taken as durations, in the
\* words of the OVERALL SPEED line
PerTaskRuleOn(p, q) ==
    LET v == speedWinner([duration |-> p], [duration |-> q])
    IN  IF v = "tie" THEN "close" ELSE v

\* C12: the overall speed outcome equals the per-task speed verdict that the
\* per-task rule gives for the two total durations, a total of zero for an
\* absent participant included (Pi wins for pi, Claude wins for claude, too
\* close to call for tie).
C12_OverallIsPerTaskRule ==
    pc \in {"summarised", "done"} =>
        overall = PerTaskRuleOn(piTotals.duration, claudeTotals.duration)

\* C13 as stated: the winner tally of the report counts, for the speed verdict
\* and for the cost verdict, the tasks won by each participant and the ties.
C13_TallyPerMetricAsStated ==
    pc = "done" =>
        LET comps == reportFile.comparisons
            n(metric, v) ==
                Cardinality({i \in 1..Len(comps) : comps[i].winner[metric] = v})
            tally(metric) == [pi |-> n(metric, "pi"), claude |-> n(metric, "claude"),
                              tie |-> n(metric, "tie")]
        IN  /\ reportFile.summary.speedWins = tally("speed")
            /\ \E f \in DOMAIN reportFile.summary \ {"speedWins"} :
                  reportFile.summary[f] = tally("cost")

\* C13 as amended: the winner tally of the report counts, for the speed
\* verdict alone, the tasks won by each participant and the ties; the summary
\* holds the two totals and that tally and nothing that counts cost verdicts.
C13_SpeedTallyOnly ==
    pc = "done" =>
        LET comps == reportFile.comparisons
            n(v) == Cardinality({i \in 1..Len(comps) : comps[i].winner.speed = v})
        IN  /\ reportFile.summary.speedWins =
                  [pi |-> n("pi"), claude |-> n("claude"), tie |-> n("tie")]
            /\ DOMAIN reportFile.summary = {"piTotals", "claudeTotals", "speedWins"}
            /\ DOMAIN reportFile.summary.piTotals =
                  {"duration", "tokensIn", "tokensOut", "cost", "passed"}
            /\ DOMAIN reportFile.summary.claudeTotals =
                  {"duration", "tokensIn", "tokensOut", "cost", "passed"}

\* C13 witness: the report of the Bug Detection scenario, whose one task has
\* speed verdict pi and cost verdict tie; the tally is one win for Pi
C13_Witness ==
    /\ BugDetectionRun
    /\ pc = "done"
    /\ reportFile.comparisons[1].winner = [speed |-> "pi", cost |-> "tie"]
    /\ reportFile.summary.speedWins = [pi |-> 1, claude |-> 0, tie |-> 0]

\* C14: for each participant the totals of the report are the sums, over all
\* entries of the report, of that participant's snapshot duration, tokensIn,
\* tokensOut and cost, and passed is the number of entries whose snapshot for
\* that participant has success true; passed never exceeds the number of
\* entries.
C14_TotalsAreSums ==
    pc = "done" =>
        LET comps == reportFile.comparisons
            n == Len(comps)
            sum(side, field) ==
                LET acc[i \in 0..n] ==
                        IF i = 0 THEN 0 ELSE acc[i - 1] + comps[i][side][field]
                IN  acc[n]
            ok(side, t) ==
                /\ \A field \in {"duration", "tokensIn", "tokensOut", "cost"} :
                      t[field] = sum(side, field)
                /\ t.passed = Cardinality({i \in 1..n : comps[i][side].success})
                /\ t.passed <= n
        IN  /\ ok("piSdk", reportFile.summary.piTotals)
            /\ ok("claudeSdk", reportFile.summary.claudeTotals)

\* C14 witness: a report of two entries; Pi failed one of the two tasks and
\* its total duration is the sum of two positive durations
C14_Witness ==
    /\ pc = "done"
    /\ Len(reportFile.comparisons) = 2
    /\ reportFile.comparisons[1].piSdk.duration = 80
    /\ ~reportFile.comparisons[1].piSdk.success
    /\ reportFile.comparisons[2].piSdk.duration = 95
    /\ reportFile.comparisons[2].piSdk.success
    /\ reportFile.summary.piTotals.duration = 175
    /\ reportFile.summary.piTotals.cost = 15 * 10 + 75 * 12
    /\ reportFile.summary.piTotals.passed = 1
    /\ reportFile.summary.claudeTotals.passed = 2

\* C15: a persistence failure ends the run in the thrown state.  With a result
\* file that exists and cannot be read or parsed the run gets no further than
\* the load that throws, builds nothing, and the report file keeps whatever an
\* earlier run left in it; when the write throws, the run ends in the thrown
\* state and the report file is either as it was or not a complete report;
\* nothing of a run follows its throw.
C15_PersistenceFailureIsFatal ==
    /\ []((loadThrows(piFile) \/ loadThrows(claudeFile)) =>
            /\ pc \in {"start", "loadedPi", "threw"}
            /\ loadThrows(piFile) => pc \in {"start", "threw"}
            /\ comparisons = <<>> /\ overall = "none")
    /\ [][(loadThrows(piFile) \/ loadThrows(claudeFile)) =>
            reportFile' = reportFile]_vars
    /\ [][(pc = "summarised" /\ pc' # "done") =>
            /\ pc' = "threw"
            /\ reportFile' = reportFile \/ ~reportFile'.intact]_vars
    /\ [][pc = "threw" => (pc' = "start" /\ runs' = runs + 1)]_vars

\* C15 witness: the Pi set was loaded with a record, the Claude file does not
\* parse, the run has thrown and the report of an earlier run is in place
C15_Witness ==
    /\ pc = "threw"
    /\ piResults.present /\ Len(piResults.recs) > 0
    /\ loadThrows(claudeFile)
    /\ reportFile = StaleReport
    /\ comparisons = <<>>

\* the raw record r carries neither of the two names a and b
Lacks(r, a, b) == ~Has(r, a) /\ ~Has(r, b)

C17_NonNegative ==
    /\ \A rec \in Range(piResults.recs) \cup Range(claudeResults.recs) :
          /\ rec.tokensIn >= 0 /\ rec.tokensOut >= 0 /\ rec.durationMs >= 0
          /\ rec.cost >= 0
    /\ Compared =>
          \A i \in 1..Len(comparisons) :
              \A side \in {"piSdk", "claudeSdk"} :
                  \A field \in {"duration", "tokensIn", "tokensOut", "cost"} :
                      comparisons[i][side][field] >= 0
    /\ pc = "done" =>
          \A field \in {"duration", "tokensIn", "tokensOut", "cost"} :
              /\ reportFile.summary.piTotals[field] >= 0
              /\ reportFile.summary.claudeTotals[field] >= 0

\* C18: normaliseResult leaves success, error, framework, model, prompt and
\* response of every raw record as they are (present with the same value, or
\* absent as before), and the snapshot of a participant for a task has
\* success true exactly when the record used for it, the first of that name,
\* has success true.
C18_SuccessAndErrorKept ==
    LET kept(file, res, loaded) ==
            (file.exists /\ file.parses /\ loaded) =>
                \A i \in 1..Len(file.data) :
                    \A f \in {"success", "error", "framework", "model", "prompt",
                              "response"} :
                        /\ Has(res.recs[i], f) <=> Has(file.data[i], f)
                        /\ Has(file.data[i], f) => res.recs[i][f] = file.data[i][f]
        snap(res, side) ==
            \A j \in 1..Len(comparisons) :
                LET i == FindIndex(res, comparisons[j].testName)
                IN  comparisons[j][side].success
                      <=> (/\ i # 0
                           /\ Has(res.recs[i], "success")
                           /\ res.recs[i].success)
    IN  /\ kept(piFile, piResults, pc \notin {"start", "threw"})
        /\ kept(claudeFile, claudeResults, pc \notin {"start", "loadedPi", "threw"})
        /\ Compared => (snap(piResults, "piSdk") /\ snap(claudeResults, "claudeSdk"))

\* C18 witness: the report over a failed Pi run with an error message and a
\* passed Claude run of the same task; the normalised Pi record still says
\* success false and carries the error, the snapshots say false and true
C18_Witness ==
    /\ piFile = FailureScenario[1]
    /\ pc = "done"
    /\ piResults.recs[1].success = FALSE
    /\ piResults.recs[1].error = "boom"
    /\ piResults.recs[1].response = "ERROR: boom"
    /\ ~Has(piResults.recs[2], "error")
    /\ claudeResults.recs[1].success = TRUE
    /\ reportFile.comparisons[1].piSdk.success = FALSE
    /\ reportFile.comparisons[1].claudeSdk.success = TRUE
    /\ reportFile.comparisons[2].piSdk.success = TRUE

\* the two files of the published benchmark
BenchmarkRun == piFile = BenchmarkScenario[1] /\ claudeFile = BenchmarkScenario[2]

\* C19: on the ten published per-task durations the speed verdict is pi for
\* Bug Detection, Complex Reasoning and SQL Optimisation, claude for Algorithm
\* Implementation, API Design, Security Audit and Architecture Decision, tie
\* for Code Refactoring, Multi-step Task and Code Review; the tally is 3, 4
\* and 3; the total durations are 377.10 s and 303.45 s and the overall speed
\* winner is Claude.
C19_PublishedBenchmark ==
    BenchmarkRun =>
        /\ Compared =>
              /\ Len(comparisons) = 10
              /\ \A i \in 1..10 :
                    LET c == comparisons[i]
                    IN  /\ c.testName \in {"Bug Detection", "Complex Reasoning",
                                           "SQL Optimisation"}
                              => c.winner.speed = "pi"
                        /\ c.testName \in {"Algorithm Implementation", "API Design",
                                           "Security Audit", "Architecture Decision"}
                              => c.winner.speed = "claude"
                        /\ c.testName \in {"Code Refactoring", "Multi-step Task",
                                           "Code Review"}
                              => c.winner.speed = "tie"
              /\ {comparisons[i].testName : i \in 1..10} =
                    {"Bug Detection", "Complex Reasoning", "SQL Optimisation",
                     "Algorithm Implementation", "API Design", "Security Audit",
                     "Architecture Decision", "Code Refactoring",
                     "Multi-step Task", "Code Review"}
        /\ pc \in {"summarised", "done"} =>
              /\ speedWins = [pi |-> 3, claude |-> 4, tie |-> 3]
              /\ piTotals.duration = 377100
              /\ claudeTotals.duration = 303450
              /\ piTotals.tokensOut = 36313
              /\ claudeTotals.tokensOut = 28525
              /\ overall = "claude"
        /\ pc = "done" =>
              /\ reportFile.summary.speedWins = [pi |-> 3, claude |-> 4, tie |-> 3]
              /\ reportFile.summary.piTotals.duration = 377100
              /\ reportFile.summary.claudeTotals.duration = 303450

\* C19 witness: the report of the benchmark is written, with ten entries, the
\* first won by Pi and the last by Claude
C19_Witness ==
    /\ BenchmarkRun
    /\ pc = "done"
    /\ Len(reportFile.comparisons) = 10
    /\ reportFile.comparisons[1].winner.speed = "pi"
    /\ reportFile.comparisons[10].winner.speed = "claude"
    /\ reportFile.summary.speedWins.tie = 3
    /\ overall = "claude"

\* the file without every record whose task name an earlier record of the
\* file already carries
RECURSIVE DropLater(_, _)
DropLater(data, seen) ==
    IF data = <<>> THEN <<>>
    ELSE LET name == normaliseResult(Head(data)).testName
         IN  IF name \in seen THEN DropLater(Tail(data), seen)
             ELSE <<Head(data)>> \o DropLater(Tail(data), seen \cup {name})

FirstOfEachName(file) == [file EXCEPT !.data = DropLater(file.data, {})]

\* C20: the snapshot of a participant for a task is taken from the first
\* record of its result set that carries the task's name; the records that
\* follow it under the same name change nothing: the table, the totals, the
\* tally and the report are those of the result sets without them.
C20_FirstMatch ==
    LET first(res, side) ==
            \A j \in 1..Len(comparisons) :
                \A i \in 1..Len(res.recs) :
                    (/\ res.recs[i].testName = comparisons[j].testName
                     /\ \A k \in 1..(i - 1) :
                           res.recs[k].testName # comparisons[j].testName)
                    => /\ comparisons[j][side].duration = res.recs[i].durationMs
                       /\ comparisons[j][side].tokensIn = res.recs[i].tokensIn
                       /\ comparisons[j][side].tokensOut = res.recs[i].tokensOut
                       /\ comparisons[j][side].cost = res.recs[i].cost
                       /\ comparisons[j][side].success
                             = (Has(res.recs[i], "success") /\ res.recs[i].success)
        short == ReportOf(FirstOfEachName(piFile), FirstOfEachName(claudeFile), 0)
    IN  /\ Compared =>
              /\ first(piResults, "piSdk") /\ first(claudeResults, "claudeSdk")
              /\ comparisons = short.comparisons
        /\ pc \in {"summarised", "done"} =>
              /\ piTotals = short.summary.piTotals
              /\ claudeTotals = short.summary.claudeTotals
              /\ speedWins = short.summary.speedWins
        /\ pc = "done" => Content(reportFile) = Content(short)

\* C20 witness: the Pi set holds task A twice, first passed in 100 ms then
\* failed in 80 ms; the report has the first in its entry and in the totals
C20_Witness ==
    /\ pc = "done"
    /\ piFile.data = <<Camel("A", 100, 10, 10, TRUE), Camel("A", 80, 0, 0, FALSE)>>
    /\ claudeFile.data = <<Snake("B", 95, 10, 12, TRUE), Camel("A", 80, 0, 0, FALSE)>>
    /\ reportFile.comparisons[1].testName = "A"
    /\ reportFile.comparisons[1].piSdk.duration = 100
    /\ reportFile.comparisons[1].piSdk.success
    /\ reportFile.comparisons[1].claudeSdk.duration = 80
    /\ reportFile.summary.piTotals.duration = 100
    /\ reportFile.summary.piTotals.passed = 1

\* C21: the entries come in the order of first discovery of their task names:
\* the distinct names of the Pi result set in the order of their first
\* occurrence, then the names that only the Claude result set holds in the
\* order of their first occurrence there; the report keeps that order.
C21_EntryOrder ==
    /\ Compared =>
          \A a, b \in 1..Len(comparisons) :
              LET na == comparisons[a].testName
                  nb == comparisons[b].testName
                  pa == FindIndex(piResults, na)
                  pb == FindIndex(piResults, nb)
              IN  a < b =>
                    /\ pb # 0 => (pa # 0 /\ pa < pb)
                    /\ (pa = 0 /\ pb = 0) =>
                          FindIndex(claudeResults, na) < FindIndex(claudeResults, nb)
    /\ pc = "done" =>
          /\ Len(reportFile.comparisons) = Len(comparisons)
          /\ \A i \in 1..Len(comparisons) :
                reportFile.comparisons[i].testName = comparisons[i].testName

\* C21 witness: Pi holds B then A, Claude holds a record without a name then
\* B; the report lists B, A, Unknown
C21_Witness ==
    /\ pc = "done"
    /\ Len(piResults.recs) = 2
    /\ piResults.recs[1].testName = "B" /\ piResults.recs[2].testName = "A"
    /\ Len(claudeResults.recs) = 2
    /\ claudeResults.recs[1].testName = "Unknown"
    /\ claudeResults.recs[2].testName = "B"
    /\ Len(reportFile.comparisons) = 3
    /\ reportFile.comparisons[1].testName = "B"
    /\ reportFile.comparisons[2].testName = "A"
    /\ reportFile.comparisons[3].testName = "Unknown"

\* C22 as stated: for the task name, the token counts and the duration the
\* normalised value is the camelCase field whenever the raw record carries it
\* (a 0 or an empty string included), the snake_case field only when the
\* camelCase field is absent, and the default only when both are absent.
C22_DualLookupByPresenceAsStated ==
    LET pick(raw, a, b, d) ==
            IF Has(raw, a) THEN raw[a] ELSE IF Has(raw, b) THEN raw[b] ELSE d
        ok(file, res, loaded) ==
            (file.exists /\ file.parses /\ loaded) =>
                \A i \in 1..Len(file.data) :
                    LET raw == file.data[i]
                        rec == res.recs[i]
                    IN  /\ rec.testName = pick(raw, "testName", "test_name", "Unknown")
                        /\ rec.tokensIn = pick(raw, "tokensIn", "tokens_in", 0)
                        /\ rec.tokensOut = pick(raw, "tokensOut", "tokens_out", 0)
                        /\ rec.durationMs = pick(raw, "durationMs", "duration_ms", 0)
    IN  /\ ok(piFile, piResults, pc \notin {"start", "threw"})
        /\ ok(claudeFile, claudeResults, pc \notin {"start", "loadedPi", "threw"})

\* C22 as amended: the normalised value is the camelCase field when the raw
\* record carries it with a truthy value (a number other than 0, a string
\* other than the empty one), else the snake_case field when that is truthy,
\* else the default; a camelCase 0 or empty string gives way to a truthy
\* snake_case value, and an empty name on its own gives "Unknown".
C22_DualLookupByTruthiness ==
    LET truthy(raw, f, falsy) == Has(raw, f) /\ raw[f] # falsy
        pick(raw, a, b, falsy, d) ==
            IF truthy(raw, a, falsy) THEN raw[a]
            ELSE IF truthy(raw, b, falsy) THEN raw[b] ELSE d
        ok(file, res, loaded) ==
            (file.exists /\ file.parses /\ loaded) =>
                \A i \in 1..Len(file.data) :
                    LET raw == file.data[i]
                        rec == res.recs[i]
                    IN  /\ rec.testName =
                              pick(raw, "testName", "test_name", "", "Unknown")
                        /\ rec.tokensIn = pick(raw, "tokensIn", "tokens_in", 0, 0)
                        /\ rec.tokensOut = pick(raw, "tokensOut", "tokens_out", 0, 0)
                        /\ rec.durationMs =
                              pick(raw, "durationMs", "duration_ms", 0, 0)
    IN  /\ ok(piFile, piResults, pc \notin {"start", "threw"})
        /\ ok(claudeFile, claudeResults, pc \notin {"start", "loadedPi", "threw"})

\* C22 witness: a raw record with an empty testName next to test_name "B" and
\* durationMs 0 next to duration_ms 90 is normalised to "B" and 90
C22_Witness ==
    /\ pc = "done"
    /\ Len(piFile.data) = 1
    /\ Has(piFile.data[1], "testName") /\ piFile.data[1].testName = ""
    /\ Has(piFile.data[1], "test_name") /\ piFile.data[1].test_name = "B"
    /\ Has(piFile.data[1], "durationMs") /\ piFile.data[1].durationMs = 0
    /\ Has(piFile.data[1], "duration_ms") /\ piFile.data[1].duration_ms = 90
    /\ piResults.recs[1].testName = "B"
    /\ piResults.recs[1].durationMs = 90
    /\ reportFile.comparisons[1].piSdk.duration = 90

\* the two files of the scenario of two short tasks and one long task
SplitRun == piFile = SplitScenario[1] /\ claudeFile = SplitScenario[2]

\* C23: the per-task tally and the overall outcome can name different
\* participants: on two short tasks that Pi wins (1 s against 2 s) and one
\* long task that Claude wins (100 s against 10 s), Pi has two speed wins
\* against one and Claude is the overall speed winner (102 s against 14 s).
C23_TallyAndOverallDisagree ==
    (SplitRun /\ pc \in {"summarised", "done"}) =>
        /\ speedWins = [pi |-> 2, claude |-> 1, tie |-> 0]
        /\ speedWins.pi > speedWins.claude
        /\ piTotals.duration = 102000 /\ claudeTotals.duration = 14000
        /\ overall = "claude"

\* C23 witness: the report of that scenario is written with Pi ahead in the
\* tally while the overall line names Claude
C23_Witness ==
    /\ SplitRun
    /\ pc = "done"
    /\ reportFile.summary.speedWins.pi > reportFile.summary.speedWins.claude
    /\ reportFile.summary.claudeTotals.duration < reportFile.summary.piTotals.duration
    /\ overall = "claude"

\* C24: a run goes through load Pi, load Claude, build the table, summarise,
\* write, in that order and without going back; the report file changes only
\* in the write step, which comes after the table and the totals are those of
\* the two loaded result sets; a run attempts the write at most once.
C24_RunOrder ==
    /\ [][\/ pc' = pc
          \/ pc = "start" /\ pc' \in {"loadedPi", "threw"}
          \/ pc = "loadedPi" /\ pc' \in {"loaded", "threw"}
          \/ pc = "loaded" /\ pc' \in {"compared", "returned"}
          \/ pc = "compared" /\ pc' = "summarised"
          \/ pc = "summarised" /\ pc' \in {"done", "threw"}
          \/ pc \in {"done", "returned", "threw"} /\ pc' = "start"]_vars
    /\ [][reportFile' # reportFile =>
            /\ pc = "summarised"
            /\ pc' \in {"done", "threw"}
            /\ comparisons = buildComparisons(piResults, claudeResults)
            /\ piTotals = Totals(comparisons, "piSdk")
            /\ claudeTotals = Totals(comparisons, "claudeSdk")
            /\ speedWins = SpeedWins(comparisons)
            /\ pc' = "done" =>
                  /\ reportFile'.comparisons = comparisons
                  /\ reportFile'.summary = [piTotals |-> piTotals,
                                            claudeTotals |-> claudeTotals,
                                            speedWins |-> speedWins]]_vars
    /\ [][clock' # clock => (pc = "summarised" /\ clock' = clock + 1)]_vars
    /\ [](/\ clock <= runs + 1
          /\ pc \in {"start", "loadedPi", "loaded", "compared", "summarised",
                     "returned"} => clock <= runs)

\* C24 witness: the second run of a behaviour has written its report; each of
\* the two runs wrote once
C24_Witness ==
    /\ pc = "done"
    /\ runs = 2
    /\ clock = 3
    /\ Len(comparisons) = 2
    /\ reportFile.comparisons = comparisons
    /\ reportFile.generatedAt = 2

\* C25: no step changes either input file.  With both result files absent the
\* run ends in the early return and the report file stays as it was.  With a
\* result file present and no load throwing, the run never takes the early
\* return and ends only in the write (done, or thrown by the write); a report
\* is written only when a result file is present, and from present but empty
\* result sets it has no entries and zero totals.
C25_ReportIffAnySetPresent ==
    /\ [][piFile' = piFile /\ claudeFile' = claudeFile]_vars
    /\ []((~piFile.exists /\ ~claudeFile.exists) =>
            pc \in {"start", "loadedPi", "loaded", "returned"})
    /\ [][(~piFile.exists /\ ~claudeFile.exists) => reportFile' = reportFile]_vars
    /\ []((/\ piFile.exists \/ claudeFile.exists
           /\ ~loadThrows(piFile) /\ ~loadThrows(claudeFile)) =>
            /\ pc # "returned"
            /\ pc = "threw" => overall # "none")
    /\ [](pc = "done" =>
            /\ piFile.exists \/ claudeFile.exists
            /\ ~loadThrows(piFile) /\ ~loadThrows(claudeFile)
            /\ reportFile.generatedAt >= 1)
    /\ []((pc = "done" /\ piFile.data = <<>> /\ claudeFile.data = <<>>) =>
            /\ reportFile.comparisons = <<>>
            /\ reportFile.summary = [piTotals |-> ZeroTotals,
                                     claudeTotals |-> ZeroTotals,
                                     speedWins |-> ZeroWins])

\* C25 witness: the Pi file holds an empty array and the Claude file is
\* absent; the report is written with no entries and zero totals over the
\* report an earlier run left
C25_Witness ==
    /\ pc = "done"
    /\ piFile = File(<<>>)
    /\ claudeFile = Absent
    /\ reportFile.exists /\ reportFile.intact
    /\ reportFile.generatedAt >= 1
    /\ reportFile.comparisons = <<>>
    /\ reportFile.summary.piTotals = ZeroTotals
    /\ reportFile # StaleReport

\* C26: in every report the three speed tally counts are non-negative and sum
\* to the number of entries, every entry's speed verdict is one of pi, claude,
\* tie and its cost verdict one of pi, claude, tie, unknown.
C26_TallySumsToEntries ==
    (reportFile.exists /\ reportFile.intact) =>
        LET wins == reportFile.summary.speedWins
            comps == reportFile.comparisons
        IN  /\ wins.pi >= 0 /\ wins.claude >= 0 /\ wins.tie >= 0
            /\ wins.pi + wins.claude + wins.tie = Len(comps)
            /\ \A i \in 1..Len(comps) :
                  /\ comps[i].winner.speed \in {"pi", "claude", "tie"}
                  /\ comps[i].winner.cost \in {"pi", "claude", "tie", "unknown"}

\* C26 witness: a report written by a run, with one task won by Claude, one
\* tied for want of a Claude record, and a cost verdict of unknown
C26_Witness ==
    /\ pc = "done"
    /\ Len(reportFile.comparisons) = 2
    /\ reportFile.summary.speedWins = [pi |-> 0, claude |-> 1, tie |-> 1]
    /\ reportFile.comparisons[1].winner.speed = "claude"
    /\ reportFile.comparisons[2].winner.speed = "tie"
    /\ reportFile.comparisons[2].winner.cost = "unknown"

\* the verdict with the two participants exchanged
Exchanged(v) == IF v = "pi" THEN "claude" ELSE IF v = "claude" THEN "pi" ELSE v

\* C27: exchanging the two participants' snapshots on a task exchanges pi and
\* claude in the speed and cost verdicts and leaves tie and unknown as they
\* are; the two win conditions of a verdict are never both true.
C27_VerdictsSymmetric ==
    Compared =>
        \A i \in 1..Len(comparisons) :
            LET c == comparisons[i]
            IN  /\ speedWinner(c.claudeSdk, c.piSdk) = Exchanged(c.winner.speed)
                /\ costWinner(c.claudeSdk, c.piSdk) = Exchanged(c.winner.cost)
                /\ (c.piSdk.duration # 0 /\ c.claudeSdk.duration # 0) =>
                      ~(/\ Below90(c.piSdk.duration, c.claudeSdk.duration)
                        /\ Below90(c.claudeSdk.duration, c.piSdk.duration))
                /\ (c.piSdk.cost > 0 /\ c.claudeSdk.cost > 0) =>
                      ~(/\ Below90(c.piSdk.cost, c.claudeSdk.cost)
                        /\ Below90(c.claudeSdk.cost, c.piSdk.cost))

\* C28: in exact arithmetic each participant's total cost in the report is the
\* pricing applied to its total tokens, 15 per million input tokens plus 75
\* per million output tokens, and every snapshot's cost is the pricing applied
\* to the snapshot's own token counts.
C28_TotalCostIsPricingOfTotals ==
    pc = "done" =>
        LET t == reportFile.summary
            comps == reportFile.comparisons
        IN  /\ t.piTotals.cost = 15 * t.piTotals.tokensIn + 75 * t.piTotals.tokensOut
            /\ t.claudeTotals.cost
                  = 15 * t.claudeTotals.tokensIn + 75 * t.claudeTotals.tokensOut
            /\ \A i \in 1..Len(comps) :
                  \A side \in {"piSdk", "claudeSdk"} :
                      comps[i][side].cost
                        = 15 * comps[i][side].tokensIn + 75 * comps[i][side].tokensOut
            /\ BenchmarkRun =>
                  /\ t.piTotals.cost = 75 * 36313
                  /\ t.claudeTotals.cost = 75 * 28525

\* C28 witness: a report of two entries with Pi costs 900 and 1050; the total
\* cost 1950 is the price of the total 20 input and 22 output tokens
C28_Witness ==
    /\ pc = "done"
    /\ Len(reportFile.comparisons) = 2
    /\ reportFile.comparisons[1].piSdk.cost = 900
    /\ reportFile.comparisons[2].piSdk.cost = 1050
    /\ reportFile.summary.piTotals.tokensIn = 20
    /\ reportFile.summary.piTotals.tokensOut = 22
    /\ reportFile.summary.piTotals.cost = 1950

====
